---- MODULE Spec2Model ----
(***************************************************************************)
(* A model of pkcs11_cryptography_keys: the PKCS#11 URI parser            *)
(* (PKCS11URI.parse), the session resolver (PKCS11URI.get_session), the   *)
(* object search (PKCS11URI.get_key, PKCS11URI.get_private_key) and the   *)
(* key usage reader (read_key_usage_from_key).                            *)
(*                                                                         *)
(* Python strings are sequences of one-character strings, bytes are        *)
(* sequences of numbers, None is the empty sequence <<>> of an optional    *)
(* value and Some(x) is <<x>>.  A dict is the sequence of its <<key,       *)
(* value>> pairs in insertion order.                                       *)
(***************************************************************************)
EXTENDS Integers, Sequences, FiniteSets, TLC

VARIABLES
    pc,             \* position of the running operation
    err,            \* the exception that reached the caller, "" when none
    \* ---- PKCS11URI.parse
    uri,            \* the input string
    grp,            \* the groups of the regular expression match: [g0, g1]
    rest,           \* the unparsed text of the pair loop
    location,       \* the location dict (parse local, then PKCS11URI._location)
    query,          \* the query dict (parse local, then PKCS11URI._query)
    \* ---- PKCS11URI.get_session
    dev,            \* the device: library info, slots, what it will answer
    norm_user,      \* the norm_user argument
    slot,           \* local slot: None or Some(index in the slot list)
    login_required, \* local login_required
    session,        \* local session: None or Some(session handle)
    pin,            \* local pin: None or Some(string)
    operations,     \* PKCS11URI._operations
    openSessions,   \* device side: the handles of the sessions that are open
    calls,          \* the device and console calls made so far, in order
    \* ---- get_key, get_private_key, read_key_usage_from_key
    objects,        \* device side: the objects of the token, in device order
    result,         \* what the operation returned: None or Some(value)
    \* ---- PKCS11KeySession.open, PKCS11AdminSession.open
    self            \* the session object: its class and constructor fields

vars == <<pc, err, uri, grp, rest, location, query, dev, norm_user, slot,
          login_required, session, pin, operations, openSessions, calls,
          objects, result, self>>

parseVars == <<uri, grp, rest>>
sessionVars == <<dev, norm_user, slot, login_required, session, pin,
                 operations, openSessions>>

(***************************************************************************)
(* Bounds of the model.                                                    *)
(***************************************************************************)
MaxTail == 5        \* characters of the input after its scheme prefix
MaxSlots == 2       \* slots the device enumerates
MaxObjs == 2        \* objects on the token

(***************************************************************************)
(* Python values and string operations.                                    *)
(***************************************************************************)
None == <<>>
Some(x) == <<x>>
IsNone(o) == o = <<>>
IsSome(o) == o # <<>>
Unwrap(o) == o[1]

Str(n, S) == UNION {[1..k -> S] : k \in 0..n}

Min(S) == CHOOSE x \in S : \A y \in S : x <= y

\* str.find(c): the 0-based index of the first occurrence, -1 when there is none
Find(s, c) ==
    IF \E i \in 1..Len(s) : s[i] = c
    THEN Min({i \in 1..Len(s) : s[i] = c}) - 1
    ELSE -1

\* one index of a Python slice, brought into 0..Len(s)
SliceIndex(s, i) ==
    IF i < 0 THEN (IF Len(s) + i < 0 THEN 0 ELSE Len(s) + i)
    ELSE IF i > Len(s) THEN Len(s) ELSE i

\* s[lo:hi] of Python, 0-based, negative indices counted from the end
PySlice(s, lo, hi) ==
    SubSeq(s, SliceIndex(s, lo) + 1, SliceIndex(s, hi))

\* s[lo:]
PySliceFrom(s, lo) == SubSeq(s, SliceIndex(s, lo) + 1, Len(s))

Whitespace == {" ", "\n"}

RECURSIVE LStrip(_)
LStrip(s) ==
    IF s # <<>> /\ Head(s) \in Whitespace THEN LStrip(Tail(s)) ELSE s

RECURSIVE RStrip(_)
RStrip(s) ==
    IF s # <<>> /\ s[Len(s)] \in Whitespace
    THEN RStrip(SubSeq(s, 1, Len(s) - 1))
    ELSE s

\* str.strip()
Strip(s) == RStrip(LStrip(s))

\* str.partition(":") : <<before, after>> of the first ":" (after is "" without one)
Partition(s) ==
    IF Find(s, ":") < 0 THEN <<s, <<>>>>
    ELSE <<PySlice(s, 0, Find(s, ":")), PySliceFrom(s, Find(s, ":") + 1)>>

HexDigits == {"2", "4", "5"}

\* the character of the byte written with two hexadecimal digits
HexChar(h1, h2) ==
    IF h1 = "2"
    THEN (IF h2 = "2" THEN "\"" ELSE IF h2 = "4" THEN "$" ELSE "%")
    ELSE IF h1 = "4"
    THEN (IF h2 = "2" THEN "B" ELSE IF h2 = "4" THEN "D" ELSE "E")
    ELSE (IF h2 = "2" THEN "R" ELSE IF h2 = "4" THEN "T" ELSE "U")

\* urllib.parse.unquote: every %XX with two hexadecimal digits becomes the
\* character of that byte, any other % stays as it is
RECURSIVE unquote(_)
unquote(s) ==
    IF s = <<>> THEN <<>>
    ELSE IF s[1] = "%" /\ Len(s) >= 3 /\ s[2] \in HexDigits /\ s[3] \in HexDigits
    THEN <<HexChar(s[2], s[3])>> \o unquote(SubSeq(s, 4, Len(s)))
    ELSE <<s[1]>> \o unquote(Tail(s))

(***************************************************************************)
(* dict: a sequence of <<key, value>> pairs with distinct keys, in         *)
(* insertion order.                                                        *)
(***************************************************************************)
EmptyDict == <<>>
Keys(d) == {d[i][1] : i \in 1..Len(d)}
HasKey(d, k) == \E i \in 1..Len(d) : d[i][1] = k
Get(d, k) == d[CHOOSE i \in 1..Len(d) : d[i][1] = k][2]

\* an assignment that leaves an existing key with the value it has
DictSet_KeepFirst(d, k, v) ==
    IF HasKey(d, k) THEN d ELSE Append(d, <<k, v>>)

\* d[k] = v : an existing key keeps its place and takes the new value
DictSet(d, k, v) ==
    IF HasKey(d, k)
    THEN [i \in 1..Len(d) |-> IF d[i][1] = k THEN <<k, v>> ELSE d[i]]
    ELSE Append(d, <<k, v>>)

(***************************************************************************)
(* PKCS11URI.parse                                                         *)
(***************************************************************************)
\* the text "$" lets the match end at: the input without one final line break
MatchBody(s) ==
    IF s # <<>> /\ s[Len(s)] = "\n" THEN SubSeq(s, 1, Len(s) - 1) ELSE s

\* "(.+?)(\?.+?)?(#.+)?$" matches at the start of s: "." takes no line break
GrobMatches(s) ==
    /\ MatchBody(s) # <<>>
    /\ \A i \in 1..Len(MatchBody(s)) : MatchBody(s)[i] # "\n"

\* after i characters of t, "(\?.+?)?(#.+)?$" can take the remainder
GrobTailOK(t, i) ==
    \/ i = Len(t)
    \/ i < Len(t) /\ t[i + 1] \in {"?", "#"} /\ Len(t) - i >= 2

\* the length of group 1, the lazy "(.+?)": the shortest that lets the rest match
GrobG0Len(t) == Min({i \in 1..Len(t) : GrobTailOK(t, i)})

\* the end of group 2, the lazy "(\?.+?)" that starts after i characters
GrobG1End(t, i) ==
    Min({e \in (i + 2)..Len(t) :
            \/ e = Len(t)
            \/ t[e + 1] = "#" /\ Len(t) - e >= 2})

\* m.groups(): group 1 and group 2 (group 3, the fragment, is never read)
GrobGroups(s) ==
    LET t == MatchBody(s)
        i == GrobG0Len(t)
    IN  [g0 |-> SubSeq(t, 1, i),
         g1 |-> IF i < Len(t) /\ t[i + 1] = "?"
                THEN Some(SubSeq(t, i + 1, GrobG1End(t, i)))
                ELSE None]

RecognizedScheme == <<"p", "k", "c", "s", "1", "1">>

\* the scheme test with the comparison of the scheme left out
SchemeAccepted_AnyScheme(schema, r) == Len(Strip(r)) > 0

\* the test that sends group 1 into the pair loop: the recognized scheme and
\* some text after it
SchemeAccepted(schema, r) == schema = RecognizedScheme /\ Len(Strip(r)) > 0

\* the pass of the loop that keeps the ";" at the head of the text it goes on
\* with
PairStep_KeepSeparator(r) ==
    LET a == Find(r, ";")
        b == Find(r, "=")
    IN  IF a > 0 /\ a < b
        THEN [do |-> "raise", key |-> <<>>, val |-> <<>>, rest |-> r]
        ELSE IF a < 0
        THEN [do |-> "break", key |-> PySlice(r, 0, b),
              val |-> unquote(PySliceFrom(r, b + 1)), rest |-> r]
        ELSE [do |-> "continue", key |-> PySlice(r, 0, b),
              val |-> unquote(PySlice(r, b + 1, a)),
              rest |-> PySliceFrom(r, a)]

\* one pass of the body of "while True" over the text r, for either segment:
\* what it does (raise, break, continue), the pair it stores, the text left
PairStep(r) ==
    LET a == Find(r, ";")
        b == Find(r, "=")
    IN  IF a > 0 /\ a < b
        THEN [do |-> "raise", key |-> <<>>, val |-> <<>>, rest |-> r]
        ELSE IF a < 0
        THEN [do |-> "break", key |-> PySlice(r, 0, b),
              val |-> unquote(PySliceFrom(r, b + 1)), rest |-> r]
        ELSE [do |-> "continue", key |-> PySlice(r, 0, b),
              val |-> unquote(PySlice(r, b + 1, a)),
              rest |-> PySliceFrom(r, a + 1)]

NoGroups == [g0 |-> <<>>, g1 |-> None]

\* match the expression, split the scheme off group 1
ParseMatch ==
    /\ pc = "parse"
    /\ IF ~GrobMatches(uri)
       THEN /\ err' = "NotAnURI"
            /\ pc' = "parse_done"
            /\ UNCHANGED <<grp, rest, location, query>>
       ELSE LET g == GrobGroups(uri)
                schema == Partition(g.g0)[1]
                r == Partition(g.g0)[2]
            IN  /\ grp' = g
                /\ location' = EmptyDict
                /\ query' = EmptyDict
                /\ IF SchemeAccepted(schema, r)
                   THEN rest' = r /\ pc' = "parse_location"
                   ELSE rest' = <<>> /\ pc' = "parse_done"
                /\ UNCHANGED err
    /\ UNCHANGED <<uri, result>>
    /\ UNCHANGED sessionVars
    /\ UNCHANGED <<calls, objects>>
    /\ UNCHANGED self

\* one pass of the pair loop of the scheme segment
ParseLocationPair ==
    /\ pc = "parse_location"
    /\ LET st == PairStep(rest)
       IN  /\ rest' = st.rest
           /\ IF st.do = "raise"
              THEN /\ err' = "BadLocation"
                   /\ pc' = "parse_done"
                   /\ UNCHANGED location
              ELSE /\ location' = DictSet(location, st.key, st.val)
                   /\ pc' = IF st.do = "break" THEN "parse_query"
                            ELSE "parse_location"
                   /\ UNCHANGED err
    /\ UNCHANGED <<uri, grp, query, result>>
    /\ UNCHANGED sessionVars
    /\ UNCHANGED <<calls, objects>>
    /\ UNCHANGED self

\* group 2: return without one, drop its "?" with one
ParseQueryStart ==
    /\ pc = "parse_query"
    /\ IF IsNone(grp.g1)
       THEN /\ pc' = "parse_done"
            /\ UNCHANGED <<rest, err>>
       ELSE IF Unwrap(grp.g1)[1] = "?"
       THEN /\ rest' = PySliceFrom(Unwrap(grp.g1), 1)
            /\ pc' = "parse_pairs"
            /\ UNCHANGED err
       ELSE /\ err' = "BadQueryInURI"
            /\ pc' = "parse_done"
            /\ UNCHANGED rest
    /\ UNCHANGED <<uri, grp, location, query, result>>
    /\ UNCHANGED sessionVars
    /\ UNCHANGED <<calls, objects>>
    /\ UNCHANGED self

\* one pass of the pair loop of the query segment
ParseQueryPair ==
    /\ pc = "parse_pairs"
    /\ LET st == PairStep(rest)
       IN  /\ rest' = st.rest
           /\ IF st.do = "raise"
              THEN /\ err' = "BadQuery"
                   /\ pc' = "parse_done"
                   /\ UNCHANGED query
              ELSE /\ query' = DictSet(query, st.key, st.val)
                   /\ pc' = IF st.do = "break" THEN "parse_done"
                            ELSE "parse_pairs"
                   /\ UNCHANGED err
    /\ UNCHANGED <<uri, grp, location, result>>
    /\ UNCHANGED sessionVars
    /\ UNCHANGED <<calls, objects>>
    /\ UNCHANGED self

\* the inputs: a scheme prefix and any text over the characters of the grammar
SchemePrefixes ==
    { <<"p", "k", "c", "s", "1", "1", ":">>,
      <<"h", "t", "t", "p", ":">>,
      <<"p", "k", "c", "s", "1", "1">>,
      <<>> }

TailChars == {";", "=", "?", "#", "%", "4", "\n"}

ParseInputs(n) == {p \o t : p \in SchemePrefixes, t \in Str(n, TailChars)}

NoDevice ==
    [info |-> [manufacturerID |-> <<>>], slots |-> <<>>, mechanisms |-> <<>>]

\* the state of the parts of the program that are not running
IdleSession ==
    /\ dev = NoDevice
    /\ norm_user = TRUE
    /\ slot = None
    /\ login_required = FALSE
    /\ session = None
    /\ pin = None
    /\ operations = <<>>
    /\ openSessions = {}

IdleParse ==
    /\ uri = <<>>
    /\ grp = NoGroups
    /\ rest = <<>>

\* no session object has been constructed
NoSelf == [class |-> "", token_label |-> None, key_label |-> None,
           key_id |-> None]

IdleOpen == self = NoSelf

InitParse ==
    /\ pc = "parse"
    /\ err = ""
    /\ uri \in ParseInputs(MaxTail)
    /\ grp = NoGroups
    /\ rest = <<>>
    /\ location = EmptyDict
    /\ query = EmptyDict
    /\ IdleSession
    /\ calls = <<>>
    /\ objects = <<>>
    /\ result = None
    /\ IdleOpen

NextParse ==
    \/ ParseMatch
    \/ ParseLocationPair
    \/ ParseQueryStart
    \/ ParseQueryPair

SpecParse == InitParse /\ [][NextParse]_vars

(***************************************************************************)
(* Claims about PKCS11URI.parse, checked under SpecParse.                  *)
(***************************************************************************)
ParseDone == pc = "parse_done"
ParseReturned == ParseDone /\ err = ""
MalformedLocator == {"BadLocation", "BadQuery", "BadQueryInURI"}

\* the scheme of an input: its text before the first ":"
SchemeOf(s) == Partition(s)[1]

\* a bare attribute name: some characters of a name and no "="
NameChars == {"4"}
IsBareName(t) == t # <<>> /\ \A i \in 1..Len(t) : t[i] \in NameChars

\* some ";"-separated pair of the text t is a bare attribute name
RECURSIVE HasBarePair(_)
HasBarePair(t) ==
    LET a == Find(t, ";")
    IN  IF a < 0 THEN IsBareName(t)
        ELSE \/ IsBareName(PySlice(t, 0, a))
             \/ HasBarePair(PySliceFrom(t, a + 1))

\* the scheme segment (after "pkcs11:") and the query segment (after "?") of
\* the input, as the match splits them
SchemeSegment == Partition(grp.g0)[2]
QuerySegment == IF IsNone(grp.g1) THEN <<>> ELSE PySliceFrom(Unwrap(grp.g1), 1)

\* C4: once parse has ended on an input with the recognized scheme in which
\* some pair of the scheme segment or of the query segment has no "=", it
\* has ended with a MalformedLocator error.
C4_BarePairIsMalformed ==
    ( /\ ParseDone
      /\ GrobMatches(uri)
      /\ SchemeAccepted(Partition(grp.g0)[1], SchemeSegment)
      /\ HasBarePair(SchemeSegment) \/ HasBarePair(QuerySegment) )
    => err \in MalformedLocator

\* C5, as stated: once parse has ended on a non-empty input whose scheme is
\* not "pkcs11", it has returned a Locator with both maps empty.
C5_AnyNonEmptyInput ==
    (ParseDone /\ uri # <<>> /\ SchemeOf(uri) # RecognizedScheme)
    => (err = "" /\ location = EmptyDict /\ query = EmptyDict)

\* C5, amended: once parse has ended on an input that the URI expression
\* matches (some text, no line break but one final one) and whose scheme is
\* not "pkcs11", it has returned a Locator with both maps empty.
C5_UnrecognizedSchemeIsEmpty ==
    (ParseDone /\ GrobMatches(uri) /\ SchemeOf(uri) # RecognizedScheme)
    => (err = "" /\ location = EmptyDict /\ query = EmptyDict)

\* an unrecognized scheme with a query segment that holds a bare pair has
\* been parsed into the empty Locator
C5_Witness ==
    /\ ParseReturned
    /\ SchemeOf(uri) = <<"h", "t", "t", "p">>
    /\ IsSome(grp.g1)
    /\ HasBarePair(QuerySegment)
    /\ location = EmptyDict /\ query = EmptyDict

\* C21: every pass of the pair loop of the scheme segment or of the query
\* segment that does not leave the loop (by return, break or raise) makes
\* the unparsed text strictly shorter, so parse ends on every input.
C21_LoopShortensRest ==
    [][(pc \in {"parse_location", "parse_pairs"} /\ pc' = pc)
       => Len(rest') < Len(rest)]_vars

\* three passes over ";;4;4" (a leading and a consecutive ";", then a pair
\* without "=") have left the text "4" to parse
C21_Witness ==
    /\ pc = "parse_location"
    /\ SchemeSegment = <<";", ";", "4", ";", "4">>
    /\ rest = <<"4">>
    /\ Len(location) = 3

(***************************************************************************)
(* The translation tables of pkcs11_URI/definitions.py: the location       *)
(* attribute names and the field of the device's info record each names.   *)
(***************************************************************************)
TagLibraryManufacturer ==
    <<"l", "i", "b", "r", "a", "r", "y", "-",
      "m", "a", "n", "u", "f", "a", "c", "t", "u", "r", "e", "r">>
TagSlotDescription ==
    <<"s", "l", "o", "t", "-",
      "d", "e", "s", "c", "r", "i", "p", "t", "i", "o", "n">>
TagToken == <<"t", "o", "k", "e", "n">>
TagSlotId == <<"s", "l", "o", "t", "-", "i", "d">>
TagObject == <<"o", "b", "j", "e", "c", "t">>
TagId == <<"i", "d">>
TagType == <<"t", "y", "p", "e">>
TagPinValue == <<"p", "i", "n", "-", "v", "a", "l", "u", "e">>

CK_INFO_translation == << <<TagLibraryManufacturer, "manufacturerID">> >>
CK_SLOT_INFO_translation == << <<TagSlotDescription, "slotDescription">> >>
CK_TOKEN_INFO_translation == << <<TagToken, "label">> >>
CK_SESSION_INFO_translation == << <<TagSlotId, "slotID">> >>

(***************************************************************************)
(* PKCS11URI.get_session                                                   *)
(***************************************************************************)
Call(op, arg) == [op |-> op, arg |-> arg]

\* the library comparison without the strip() of the library's value
LibraryMismatch_NoStrip(loc, info) ==
    \E i \in 1..Len(loc) :
        /\ HasKey(CK_INFO_translation, loc[i][1])
        /\ loc[i][2] # info[Get(CK_INFO_translation, loc[i][1])]

\* library.getInfo() against the library attributes of the locator: TRUE when
\* some attribute the table knows differs from the stripped field
LibraryMismatch(loc, info) ==
    \E i \in 1..Len(loc) :
        /\ HasKey(CK_INFO_translation, loc[i][1])
        /\ loc[i][2] # Strip(info[Get(CK_INFO_translation, loc[i][1])])

\* the inner loop without its "break": a tag that differs clears slot and the
\* loop goes on to the next tag
RECURSIVE TagLoop_NoBreak(_, _, _, _, _, _, _)
TagLoop_NoBreak(loc, i, sl, si, ti, found, slotv) ==
    IF i > Len(loc) THEN [found |-> found, slot |-> slotv]
    ELSE
      LET tag == loc[i][1]
          val == loc[i][2]
          inSlot == HasKey(CK_SLOT_INFO_translation, tag)
          inToken == HasKey(CK_TOKEN_INFO_translation, tag)
          slotBad ==
              inSlot /\ val # Strip(si[Get(CK_SLOT_INFO_translation, tag)])
          tokenBad ==
              inToken /\ val # Strip(ti[Get(CK_TOKEN_INFO_translation, tag)])
      IN  TagLoop_NoBreak(loc, i + 1, sl, si, ti, found \/ inSlot \/ inToken,
                          IF slotBad \/ tokenBad THEN None
                          ELSE IF inSlot \/ inToken THEN Some(sl) ELSE slotv)

\* the inner "for tag in self._location" of one slot sl, from tag i on:
\* found and slot as the loop leaves them
RECURSIVE TagLoop(_, _, _, _, _, _, _)
TagLoop(loc, i, sl, si, ti, found, slotv) ==
    IF i > Len(loc) THEN [found |-> found, slot |-> slotv]
    ELSE
      LET tag == loc[i][1]
          val == loc[i][2]
          inSlot == HasKey(CK_SLOT_INFO_translation, tag)
          inToken == HasKey(CK_TOKEN_INFO_translation, tag)
          slotBad ==
              inSlot /\ val # Strip(si[Get(CK_SLOT_INFO_translation, tag)])
          tokenBad ==
              inToken /\ val # Strip(ti[Get(CK_TOKEN_INFO_translation, tag)])
      IN  IF slotBad \/ tokenBad
          THEN [found |-> TRUE, slot |-> None]
          ELSE TagLoop(loc, i + 1, sl, si, ti, found \/ inSlot \/ inToken,
                       IF inSlot \/ inToken THEN Some(sl) ELSE slotv)

\* the "for sl in slots" loop from slot k on: slot and login_required as the
\* loop leaves them
RECURSIVE SlotLoop(_, _, _, _, _)
SlotLoop(loc, slots, k, slotv, login) ==
    IF k > Len(slots) THEN [slot |-> slotv, login_required |-> login]
    ELSE
      LET ti == slots[k].token
          si == slots[k].slot
          login2 == login \/ ("CKF_LOGIN_REQUIRED" \in ti.flags)
          r == TagLoop(loc, 1, k, si, ti, FALSE, slotv)
      IN  IF r.found /\ IsSome(r.slot)
          THEN [slot |-> r.slot, login_required |-> login2]
          ELSE SlotLoop(loc, slots, k + 1, r.slot, login2)

\* session.getSessionInfo() against the session attributes of the locator
SessionMismatch(loc, ses_info) ==
    \E i \in 1..Len(loc) :
        /\ HasKey(CK_SESSION_INFO_translation, loc[i][1])
        /\ loc[i][2] # ses_info[Get(CK_SESSION_INFO_translation, loc[i][1])]

\* the flags of a mechanism in the order of mi.flags_dict, and the label each
\* gives once "CKF_" is taken off its name
FlagsDict == <<"CKF_DECRYPT", "CKF_SIGN">>
FlagLabel(f) == IF f = "CKF_DECRYPT" THEN "DECRYPT" ELSE "SIGN"

\* the (mechanism, label) pairs of one mechanism, one per flag it asserts
RECURSIVE FlagOps(_, _)
FlagOps(m, j) ==
    IF j > Len(FlagsDict) THEN <<>>
    ELSE (IF FlagsDict[j] \in m.flags
          THEN << <<m.id, FlagLabel(FlagsDict[j])>> >> ELSE <<>>)
         \o FlagOps(m, j + 1)

\* the pairs of a mechanism list, in its order
RECURSIVE MechanismOps(_)
MechanismOps(ms) ==
    IF ms = <<>> THEN <<>> ELSE FlagOps(Head(ms), 1) \o MechanismOps(Tail(ms))

\* the mechanisms a device may expose on its slots, with the flags
\* getMechanismInfo gives for each
MechanismLists ==
    { <<>>,
      << [id |-> 1, flags |-> {"CKF_SIGN"}] >>,
      << [id |-> 1, flags |-> {"CKF_DECRYPT", "CKF_SIGN"}],
         [id |-> 2, flags |-> {}] >> }

\* the text of the slot identifier in the session's info record
SlotIdText(k) == <<IF k = 1 THEN "1" ELSE IF k = 2 THEN "2" ELSE "3">>

SessionInfo(k) == [slotID |-> SlotIdText(k)]

\* a fresh session handle: one more than the sessions opened so far
NewHandle ==
    Cardinality({i \in 1..Len(calls) : calls[i].op = "openSession"}) + 1

\* load the library, read its info, compare the library attributes
GetSessionLibrary ==
    /\ pc = "get_session"
    /\ IF LibraryMismatch(location, dev.info)
       THEN /\ err' = "LibraryMismatch"
            /\ pc' = "session_done"
       ELSE /\ pc' = "session_slots"
            /\ UNCHANGED err
    /\ calls' = calls \o <<Call("load", <<>>), Call("getInfo", <<>>)>>
    /\ UNCHANGED <<location, query, objects, result>>
    /\ UNCHANGED parseVars
    /\ UNCHANGED sessionVars
    /\ UNCHANGED self

\* enumerate the slots and select one
GetSessionSelectSlot ==
    /\ pc = "session_slots"
    /\ LET r == SlotLoop(location, dev.slots, 1, None, FALSE)
       IN  /\ slot' = r.slot
           /\ login_required' = r.login_required
           /\ IF IsSome(r.slot)
              THEN pc' = "session_open" /\ UNCHANGED result
              ELSE pc' = "session_done" /\ result' = Some(session)
    /\ calls' = Append(calls, Call("getSlotList", <<>>))
    /\ UNCHANGED <<err, location, query, objects>>
    /\ UNCHANGED parseVars
    /\ UNCHANGED <<dev, norm_user, session, pin, operations, openSessions>>
    /\ UNCHANGED self

\* openSession on the first slot of the list, whichever slot was selected
GetSessionOpen_FirstSlot ==
    /\ pc = "session_open"
    /\ session' = Some(NewHandle)
    /\ openSessions' = openSessions \cup {NewHandle}
    /\ calls' = Append(calls, Call("openSession", 1))
    /\ pc' = "session_check"
    /\ UNCHANGED <<err, location, query, objects, result>>
    /\ UNCHANGED parseVars
    /\ UNCHANGED <<dev, norm_user, slot, login_required, pin, operations>>
    /\ UNCHANGED self

\* library.openSession on the selected slot
GetSessionOpen ==
    /\ pc = "session_open"
    /\ session' = Some(NewHandle)
    /\ openSessions' = openSessions \cup {NewHandle}
    /\ calls' = Append(calls, Call("openSession", Unwrap(slot)))
    /\ pc' = "session_check"
    /\ UNCHANGED <<err, location, query, objects, result>>
    /\ UNCHANGED parseVars
    /\ UNCHANGED <<dev, norm_user, slot, login_required, pin, operations>>
    /\ UNCHANGED self

\* compare the session attributes; a mismatch closes the session and raises
GetSessionCheck ==
    /\ pc = "session_check"
    /\ IF SessionMismatch(location, SessionInfo(Unwrap(slot)))
       THEN /\ openSessions' = openSessions \ {Unwrap(session)}
            /\ calls' = calls \o <<Call("getSessionInfo", Unwrap(session)),
                                   Call("closeSession", Unwrap(session))>>
            /\ session' = None
            /\ err' = "SessionAttributeMismatch"
            /\ pc' = "session_done"
       ELSE /\ calls' = Append(calls, Call("getSessionInfo", Unwrap(session)))
            /\ pc' = "session_pin"
            /\ UNCHANGED <<openSessions, session, err>>
    /\ UNCHANGED <<location, query, objects, result>>
    /\ UNCHANGED parseVars
    /\ UNCHANGED <<dev, norm_user, slot, login_required, pin, operations>>
    /\ UNCHANGED self

\* what input() may do: give a text, give nothing (a provider that has no
\* PIN to give), or raise EOFError on a closed console
InputOutcomes == {"text", "nothing", "EOFError"}
TypedPin == <<"9">>

\* pin-value of the query, else the console when login is required
GetSessionPin ==
    /\ pc = "session_pin"
    /\ LET p == IF HasKey(query, TagPinValue)
                THEN Some(Get(query, TagPinValue)) ELSE None
       IN  IF ~login_required
           THEN /\ pin' = p
                /\ pc' = "session_done"
                /\ result' = Some(session)
                /\ UNCHANGED <<err, calls>>
           ELSE IF IsSome(p)
           THEN /\ pin' = p
                /\ pc' = "session_login"
                /\ UNCHANGED <<err, calls, result>>
           ELSE \E o \in InputOutcomes :
                /\ calls' = Append(calls, Call("input", o))
                /\ UNCHANGED result
                /\ IF o = "text"
                   THEN pin' = Some(TypedPin) /\ pc' = "session_login"
                                              /\ UNCHANGED err
                   ELSE IF o = "nothing"
                   THEN pin' = None /\ pc' = "session_done"
                                    /\ err' = "LoginRequiredNoPin"
                   ELSE pin' = None /\ pc' = "session_done"
                                    /\ err' = "EOFError"
    /\ UNCHANGED <<location, query, objects>>
    /\ UNCHANGED parseVars
    /\ UNCHANGED <<dev, norm_user, slot, login_required, session, operations,
                   openSessions>>
    /\ UNCHANGED self

\* session.login with the role asked for; the device accepts or rejects
GetSessionLogin ==
    /\ pc = "session_login"
    /\ calls' = Append(calls, Call("login",
                    <<Unwrap(pin), IF norm_user THEN "CKU_USER" ELSE "CKU_SO">>))
    /\ \E accepted \in BOOLEAN :
          IF accepted
          THEN pc' = "session_mechanisms" /\ UNCHANGED err
          ELSE pc' = "session_done" /\ err' = "LoginFailure"
    /\ UNCHANGED <<location, query, objects, result>>
    /\ UNCHANGED parseVars
    /\ UNCHANGED sessionVars
    /\ UNCHANGED self

\* read the mechanisms of the slot into _operations and return the session;
\* the device may fail the read
GetSessionMechanisms ==
    /\ pc = "session_mechanisms"
    /\ \/ /\ calls' = Append(calls, Call("getMechanismList", dev.mechanisms))
          /\ operations' = MechanismOps(dev.mechanisms)
          /\ result' = Some(session)
          /\ UNCHANGED err
       \/ /\ calls' = Append(calls, Call("getMechanismList", "error"))
          /\ err' = "DeviceError"
          /\ UNCHANGED <<operations, result>>
    /\ pc' = "session_done"
    /\ UNCHANGED <<location, query, objects>>
    /\ UNCHANGED parseVars
    /\ UNCHANGED <<dev, norm_user, slot, login_required, session, pin,
                   openSessions>>
    /\ UNCHANGED self

\* the devices: the library's padded manufacturer, up to MaxSlots slots, and
\* the mechanisms the slots expose
SlotDescriptions == { <<"S", " ">>, <<"T">> }
TokenLabels == { <<"A", " ">>, <<"B">> }
TokenFlags == { {}, {"CKF_LOGIN_REQUIRED"} }

SlotRecords ==
    [slot : [slotDescription : SlotDescriptions],
     token : [label : TokenLabels, flags : TokenFlags]]

Devices(n) ==
    [info : {[manufacturerID |-> <<"L", " ">>]},
     slots : Str(n, SlotRecords),
     mechanisms : MechanismLists]

\* an optional attribute as the pairs it adds to a dict
Attr(tag, o) == IF IsNone(o) THEN <<>> ELSE << <<tag, Unwrap(o)>> >>

Reverse(s) == [i \in 1..Len(s) |-> s[Len(s) + 1 - i]]

Opt(S) == {None} \cup {Some(x) : x \in S}

\* the locators: any choice of the library, slot, token and session
\* attributes, in the order written or in the opposite order
SessionLocations ==
    LET base == { Attr(TagLibraryManufacturer, l) \o Attr(TagSlotDescription, s)
                  \o Attr(TagToken, t) \o Attr(TagSlotId, n) :
                    l \in Opt({<<"L">>, <<"M">>}),
                    s \in Opt({<<"S">>}),
                    t \in Opt({<<"A">>, <<"B">>}),
                    n \in Opt({<<"1">>}) }
    IN  base \cup {Reverse(d) : d \in base}

SessionQueries == { EmptyDict, << <<TagPinValue, <<"1">>>> >> }

InitSession ==
    /\ pc = "get_session"
    /\ err = ""
    /\ IdleParse
    /\ location \in SessionLocations
    /\ query \in SessionQueries
    /\ dev \in Devices(MaxSlots)
    /\ norm_user \in BOOLEAN
    /\ slot = None
    /\ login_required = FALSE
    /\ session = None
    /\ pin = None
    /\ operations = <<>>
    /\ openSessions = {}
    /\ calls = <<>>
    /\ objects = <<>>
    /\ result = None
    /\ IdleOpen

NextSession ==
    \/ GetSessionLibrary
    \/ GetSessionSelectSlot
    \/ GetSessionOpen
    \/ GetSessionCheck
    \/ GetSessionPin
    \/ GetSessionLogin
    \/ GetSessionMechanisms

SpecSession == InitSession /\ [][NextSession]_vars

(***************************************************************************)
(* Claims about PKCS11URI.get_session, checked under SpecSession.          *)
(***************************************************************************)
SessionDone == pc = "session_done"
Called(op) == \E i \in 1..Len(calls) : calls[i].op = op
CalledWith(op, arg) ==
    \E i \in 1..Len(calls) : calls[i].op = op /\ calls[i].arg = arg
OpenedHandles == {i \in 1..Len(calls) : calls[i].op = "openSession"}

\* C1: when get_session has failed after it opened a session, closeSession
\* has been called on that session and no session is open.
C1_FailedResolveClosesSession ==
    (SessionDone /\ err # "" /\ Called("openSession"))
    => /\ openSessions = {}
       /\ \A h \in 1..Cardinality(OpenedHandles) : CalledWith("closeSession", h)

\* C2: when the selected token requires login, the query has no pin-value
\* and the PIN provider gave nothing, get_session has failed with
\* LoginRequiredNoPin, has submitted no login and has left no session open.
C2_NoPinFailsClosed ==
    ( /\ SessionDone
      /\ IsSome(slot)
      /\ "CKF_LOGIN_REQUIRED" \in dev.slots[Unwrap(slot)].token.flags
      /\ ~HasKey(query, TagPinValue)
      /\ CalledWith("input", "nothing") )
    => /\ err = "LoginRequiredNoPin"
       /\ ~Called("login")
       /\ openSessions = {}

\* the locator has an attribute recognized as a slot or token field
HasSlotOrTokenAttribute ==
    \E i \in 1..Len(location) :
        \/ HasKey(CK_SLOT_INFO_translation, location[i][1])
        \/ HasKey(CK_TOKEN_INFO_translation, location[i][1])

\* every recognized slot or token attribute of the locator equals the
\* stripped field of slot k
SlotMatches(k) ==
    \A i \in 1..Len(location) :
        /\ HasKey(CK_SLOT_INFO_translation, location[i][1])
           => location[i][2] =
              Strip(dev.slots[k].slot[Get(CK_SLOT_INFO_translation,
                                          location[i][1])])
        /\ HasKey(CK_TOKEN_INFO_translation, location[i][1])
           => location[i][2] =
              Strip(dev.slots[k].token[Get(CK_TOKEN_INFO_translation,
                                           location[i][1])])

\* C3: once the slots are enumerated for a locator with a recognized slot or
\* token attribute, the slot selected is the first in enumeration order
\* whose fields all match, and none is selected when no slot matches.
C3_FirstMatchingSlot ==
    (Called("getSlotList") /\ HasSlotOrTokenAttribute)
    => /\ IsSome(slot) =>
            /\ SlotMatches(Unwrap(slot))
            /\ \A j \in 1..(Unwrap(slot) - 1) : ~SlotMatches(j)
       /\ IsNone(slot) => \A k \in 1..Len(dev.slots) : ~SlotMatches(k)

\* of two slots only the second matches the token label of the locator, and
\* the second is the one selected
C3_Witness ==
    /\ Called("getSlotList")
    /\ Len(dev.slots) = 2
    /\ HasKey(location, TagToken)
    /\ Get(location, TagToken) # Strip(dev.slots[1].token.label)
    /\ Get(location, TagToken) = Strip(dev.slots[2].token.label)
    /\ slot = Some(2)

\* gen_operations: the pairs it yields, in the order of _operations
gen_operations == operations

\* get_session has returned an open session to its caller
ReturnedSession ==
    SessionDone /\ err = "" /\ IsSome(result) /\ IsSome(Unwrap(result))

\* C11: after every get_session that returned a session, gen_operations
\* yields exactly the (mechanism, label) pairs of the mechanisms the device
\* exposes, one per asserted flag, in device order, whether or not the token
\* requires login.
C11_OperationsAfterEverySuccess ==
    ReturnedSession => gen_operations = MechanismOps(dev.mechanisms)

\* C12: a get_session that enumerated the slots and selected none has failed
\* with NoMatchingSlot, and a get_session that ends without an error has an
\* open session to return.
C12_NoSlotIsNoMatchingSlot ==
    /\ (SessionDone /\ Called("getSlotList") /\ IsNone(slot))
       => err = "NoMatchingSlot"
    /\ (SessionDone /\ err = "")
       => (IsSome(session) /\ Unwrap(session) \in openSessions)

\* the token of the selected slot has the login-required flag
SelectedTokenRequiresLogin ==
    /\ IsSome(slot)
    /\ "CKF_LOGIN_REQUIRED" \in dev.slots[Unwrap(slot)].token.flags

\* get_session is over and its session passed the session-attribute check
PastSessionCheck ==
    SessionDone /\ Called("getSessionInfo") /\ err # "SessionAttributeMismatch"

\* C14: get_session asks for a PIN or submits a login only when the token of
\* the selected slot has the login-required flag, and always does so when it
\* has, whatever the flags of the other enumerated slots.
C14_LoginFollowsSelectedToken ==
    /\ (Called("input") \/ Called("login")) => SelectedTokenRequiresLogin
    /\ (PastSessionCheck /\ SelectedTokenRequiresLogin)
       => (Called("input") \/ Called("login"))

\* the positions of the calls of one operation in the log
CallsOf(op) == {i \in 1..Len(calls) : calls[i].op = op}

\* C15: login is submitted at most once, after openSession and after the
\* session-attribute check passed, with CKU_SO exactly when the privileged
\* role was asked for and with the query's pin-value when there is one; the
\* PIN provider is asked only when the selected token requires login and
\* the query has no pin-value.
C15_LoginOnceAfterCheck ==
    /\ Cardinality(CallsOf("login")) <= 1
    /\ \A i \in CallsOf("login") :
          /\ \E j \in CallsOf("openSession") :
                \E k \in CallsOf("getSessionInfo") : j < k /\ k < i
          /\ ~Called("closeSession")
          /\ calls[i].arg[2] = (IF norm_user THEN "CKU_USER" ELSE "CKU_SO")
          /\ HasKey(query, TagPinValue)
             => calls[i].arg[1] = Get(query, TagPinValue)
    /\ Called("input")
       => (SelectedTokenRequiresLogin /\ ~HasKey(query, TagPinValue))

\* C17: at every point of a get_session call at most one session is open and
\* openSession has been called at most once; a session returned to the
\* caller is the one that call opened, on the selected slot, and it is
\* still open.
C17_OneSessionOnSelectedSlot ==
    /\ Cardinality(openSessions) <= 1
    /\ Cardinality(CallsOf("openSession")) <= 1
    /\ ReturnedSession
       => /\ Unwrap(result) = session
          /\ Unwrap(session) \in openSessions
          /\ Unwrap(session) = Cardinality(CallsOf("openSession"))
          /\ \A i \in CallsOf("openSession") : calls[i].arg = Unwrap(slot)

\* the second of two slots was selected and the session opened on it was
\* returned
C17_Witness ==
    /\ ReturnedSession
    /\ Len(dev.slots) = 2
    /\ slot = Some(2)
    /\ CalledWith("openSession", 2)
    /\ openSessions = {Unwrap(session)}

\* some attribute of the locator names a library field and differs from the
\* trimmed value of that field
LibraryAttributeDiffers ==
    \E i \in 1..Len(location) :
        /\ HasKey(CK_INFO_translation, location[i][1])
        /\ location[i][2] # Strip(dev.info[Get(CK_INFO_translation,
                                               location[i][1])])

\* the locator has an attribute that names a session field
HasSessionAttribute ==
    \E i \in 1..Len(location) :
        HasKey(CK_SESSION_INFO_translation, location[i][1])

\* C18: get_session fails with LibraryMismatch exactly when a library
\* attribute of the locator differs from the trimmed library value, and then
\* it has enumerated no slot and opened no session; a locator without
\* session attributes never fails the session check, and a slot that
\* matches every slot or token attribute present is never passed over.
C18_LibraryCheckedFirst ==
    /\ (pc # "get_session")
       => ((err = "LibraryMismatch") <=> LibraryAttributeDiffers)
    /\ (err = "LibraryMismatch")
       => /\ SessionDone
          /\ ~Called("getSlotList")
          /\ ~Called("openSession")
          /\ openSessions = {}
    /\ (err = "SessionAttributeMismatch") => HasSessionAttribute
    /\ ( /\ Called("getSlotList")
         /\ HasSlotOrTokenAttribute
         /\ \E k \in 1..Len(dev.slots) : SlotMatches(k) )
       => IsSome(slot)

\* a locator whose token attribute matches the first slot failed on its
\* library attribute before any slot was looked at
C18_Witness ==
    /\ SessionDone
    /\ err = "LibraryMismatch"
    /\ Len(dev.slots) >= 1
    /\ HasKey(location, TagToken)
    /\ SlotMatches(1)
    /\ calls = <<Call("load", <<>>), Call("getInfo", <<>>)>>

(***************************************************************************)
(* PKCS11URI.get_key and PKCS11URI.get_private_key                         *)
(***************************************************************************)
TypePrivate == <<"p", "r", "i", "v", "a", "t", "e">>
TypePublic == <<"p", "u", "b", "l", "i", "c">>
TypeCert == <<"c", "e", "r", "t">>
TypeSecretKey == <<"s", "e", "c", "r", "e", "t", "-", "k", "e", "y">>
TypeData == <<"d", "a", "t", "a">>

\* definitions.py: the value of "type" and the object class it names
PKCS11_type_translation ==
    << <<TypeCert, "CKO_CERTIFICATE">>,
       <<TypeData, "CKO_DATA">>,
       <<TypePrivate, "CKO_PRIVATE_KEY">>,
       <<TypePublic, "CKO_PUBLIC_KEY">>,
       <<TypeSecretKey, "CKO_SECRET_KEY">> >>

\* the UTF-8 byte of a character
CharCode(c) == IF c = "1" THEN 49 ELSE IF c = "2" THEN 50 ELSE 63

\* __get_object_value: the label as it is
get_object_value(value) == Some(value)

\* __get_id_value: bytes(value, "UTF-8")
get_id_value(value) == Some([i \in 1..Len(value) |-> CharCode(value[i])])

\* __get_type_value: the class of the table, None for a value it does not hold
get_type_value(value) ==
    IF HasKey(PKCS11_type_translation, value)
    THEN Some(Get(PKCS11_type_translation, value))
    ELSE None

\* _PKCS11_key_translation: the attribute of a tag
KeyAttribute(tag) ==
    IF tag = TagObject THEN "CKA_LABEL"
    ELSE IF tag = TagId THEN "CKA_ID" ELSE "CKA_CLASS"

\* _PKCS11_key_translation: the value operation of a tag, applied
KeyOperation(tag, value) ==
    IF tag = TagObject THEN get_object_value(value)
    ELSE IF tag = TagId THEN get_id_value(value)
    ELSE get_type_value(value)

InKeyTranslation(tag) == tag \in {TagObject, TagId, TagType}

\* the template of get_key: one entry for every recognized tag whose value
\* the operation does not turn into None, in the order of the dict
RECURSIVE KeyTemplate(_, _)
KeyTemplate(loc, i) ==
    IF i > Len(loc) THEN <<>>
    ELSE LET tag == loc[i][1]
             val == KeyOperation(tag, loc[i][2])
         IN  (IF InKeyTranslation(tag) /\ IsSome(val)
              THEN << <<KeyAttribute(tag), Unwrap(val)>> >> ELSE <<>>)
             \o KeyTemplate(loc, i + 1)

\* the loop of get_private_key with "type" taken from the locator
PrivateKeyLoop_LocatorType(loc, i) == KeyTemplate(loc, i)

\* the loop of get_private_key: "type" always gives the class of "private"
RECURSIVE PrivateKeyLoop(_, _)
PrivateKeyLoop(loc, i) ==
    IF i > Len(loc) THEN <<>>
    ELSE LET tag == loc[i][1]
             val == IF tag = TagType THEN KeyOperation(tag, TypePrivate)
                    ELSE KeyOperation(tag, loc[i][2])
         IN  (IF InKeyTranslation(tag) /\ IsSome(val)
              THEN << <<KeyAttribute(tag), Unwrap(val)>> >> ELSE <<>>)
             \o PrivateKeyLoop(loc, i + 1)

\* the template of get_private_key: the loop, then the class of "private"
\* when the locator has no "type"
PrivateKeyTemplate(loc) ==
    PrivateKeyLoop(loc, 1)
    \o (IF ~HasKey(loc, TagType) /\ IsSome(KeyOperation(TagType, TypePrivate))
        THEN << <<KeyAttribute(TagType),
                  Unwrap(KeyOperation(TagType, TypePrivate))>> >>
        ELSE <<>>)

\* keyid left at its first value
LocatorKeyId_None(loc) == None

\* keyid and label as the loop of get_private_key leaves them
LocatorKeyId(loc) ==
    IF HasKey(loc, TagId) THEN KeyOperation(TagId, Get(loc, TagId)) ELSE None
LocatorLabel(loc) ==
    IF HasKey(loc, TagObject) THEN KeyOperation(TagObject, Get(loc, TagObject))
    ELSE None

\* device side: the object o has every attribute value of the template
ObjectMatches(o, template) ==
    \A i \in 1..Len(template) : o[template[i][1]] = template[i][2]

\* device side, session.findObjects: the handles of the matching objects in
\* device order (a handle is the place of the object on the token)
RECURSIVE FindObjects(_, _, _)
FindObjects(objs, template, h) ==
    IF h > Len(objs) THEN <<>>
    ELSE (IF ObjectMatches(objs[h], template) THEN <<h>> ELSE <<>>)
         \o FindObjects(objs, template, h + 1)

\* device side, session.getAttributeValue
GetAttributeValue(objs, h, attrs) == [i \in 1..Len(attrs) |-> objs[h][attrs[i]]]

\* the calls of one search with the warning given for one object too
SearchCalls_WarnOnAny(template, objs, attrs) ==
    <<Call("findObjects", template)>>
    \o (IF Len(objs) > 0 THEN <<Call("print", <<>>)>> ELSE <<>>)
    \o (IF Len(objs) > 0 THEN <<Call("getAttributeValue", <<objs[1], attrs>>)>>
        ELSE <<>>)

\* the calls of one search that found objs, and the warning for several
SearchCalls(template, objs, attrs) ==
    <<Call("findObjects", template)>>
    \o (IF Len(objs) > 1 THEN <<Call("print", <<>>)>> ELSE <<>>)
    \o (IF Len(objs) > 0 THEN <<Call("getAttributeValue", <<objs[1], attrs>>)>>
        ELSE <<>>)

\* get_key without the test of the template's length
GetKey_AnyTemplate ==
    /\ pc = "find"
    /\ LET template == KeyTemplate(location, 1)
           attrs == <<"CKA_KEY_TYPE", "CKA_ID">>
       IN  IF IsSome(session)
           THEN LET objs == FindObjects(objects, template, 1)
                    a == GetAttributeValue(objects, objs[1], attrs)
                IN  /\ calls' = calls \o SearchCalls(template, objs, attrs)
                    /\ result' =
                         IF Len(objs) > 0
                         THEN Some(<<Some(a[2]), Some(a[1]), Some(objs[1])>>)
                         ELSE Some(<<None, None, None>>)
           ELSE /\ result' = Some(<<None, None, None>>)
                /\ UNCHANGED calls
    /\ pc' = "get_key_done"
    /\ UNCHANGED <<err, location, query, objects>>
    /\ UNCHANGED parseVars
    /\ UNCHANGED sessionVars
    /\ UNCHANGED self

GetKey ==
    /\ pc = "find"
    /\ LET template == KeyTemplate(location, 1)
           attrs == <<"CKA_KEY_TYPE", "CKA_ID">>
       IN  IF IsSome(session) /\ Len(template) > 0
           THEN LET objs == FindObjects(objects, template, 1)
                    a == GetAttributeValue(objects, objs[1], attrs)
                IN  /\ calls' = calls \o SearchCalls(template, objs, attrs)
                    /\ result' =
                         IF Len(objs) > 0
                         THEN Some(<<Some(a[2]), Some(a[1]), Some(objs[1])>>)
                         ELSE Some(<<None, None, None>>)
           ELSE /\ result' = Some(<<None, None, None>>)
                /\ UNCHANGED calls
    /\ pc' = "get_key_done"
    /\ UNCHANGED <<err, location, query, objects>>
    /\ UNCHANGED parseVars
    /\ UNCHANGED sessionVars
    /\ UNCHANGED self

GetPrivateKey ==
    /\ pc = "find"
    /\ LET template == PrivateKeyTemplate(location)
           attrs == <<"CKA_KEY_TYPE", "CKA_ID", "CKA_LABEL">>
           notFound == Some(<<LocatorKeyId(location), LocatorLabel(location),
                              None, None>>)
       IN  IF IsSome(session) /\ Len(template) > 0
           THEN LET objs == FindObjects(objects, template, 1)
                    a == GetAttributeValue(objects, objs[1], attrs)
                IN  /\ calls' = calls \o SearchCalls(template, objs, attrs)
                    /\ result' =
                         IF Len(objs) > 0
                         THEN Some(<<Some(a[2]), Some(a[3]), Some(a[1]),
                                     Some(objs[1])>>)
                         ELSE notFound
           ELSE /\ result' = notFound
                /\ UNCHANGED calls
    /\ pc' = "get_private_key_done"
    /\ UNCHANGED <<err, location, query, objects>>
    /\ UNCHANGED parseVars
    /\ UNCHANGED sessionVars
    /\ UNCHANGED self

\* the objects of a token
KeyObjects ==
    [CKA_CLASS : {"CKO_PRIVATE_KEY", "CKO_PUBLIC_KEY"},
     CKA_LABEL : {<<"k">>, <<"j">>},
     CKA_ID : {<<49>>, <<50>>},
     CKA_KEY_TYPE : {"CKK_RSA", "CKK_ECDSA"}]

TypeBogus == <<"k", "e", "y">>

\* the locators: any choice of the object attributes and of the token label
FindLocations ==
    { Attr(TagToken, t) \o Attr(TagObject, o) \o Attr(TagId, n)
      \o Attr(TagType, y) :
        t \in Opt({<<"A">>}),
        o \in Opt({<<"k">>}),
        n \in Opt({<<"1">>}),
        y \in Opt({TypePrivate, TypePublic, TypeBogus}) }

InitFind ==
    /\ pc = "find"
    /\ err = ""
    /\ IdleParse
    /\ location \in FindLocations
    /\ query = EmptyDict
    /\ dev = NoDevice
    /\ norm_user = TRUE
    /\ slot = None
    /\ login_required = FALSE
    /\ session \in {None, Some(1)}
    /\ pin = None
    /\ operations = <<>>
    /\ openSessions = (IF IsSome(session) THEN {1} ELSE {})
    /\ calls = <<>>
    /\ objects \in Str(MaxObjs, KeyObjects)
    /\ result = None
    /\ IdleOpen

NextFind ==
    \/ GetKey
    \/ GetPrivateKey

SpecFind == InitFind /\ [][NextFind]_vars

(***************************************************************************)
(* Claims about get_key and get_private_key, checked under SpecFind.       *)
(***************************************************************************)
GetKeyDone == pc = "get_key_done"
GetPrivateKeyDone == pc = "get_private_key_done"
CountCalls(op) == Cardinality({i \in 1..Len(calls) : calls[i].op = op})

\* the template the search submitted (findObjects is the first call made)
SubmittedTemplate == calls[1].arg

\* device side: the handles of the objects that have every attribute value
\* of the submitted template
MatchingHandles ==
    {h \in 1..Len(objects) : ObjectMatches(objects[h], SubmittedTemplate)}

\* the handle is the last component of either result
ReturnedHandle == Unwrap(result)[Len(Unwrap(result))]

\* the result of get_key or get_private_key is the object h with the
\* attributes read from it
ReturnsObject(h) ==
    /\ ReturnedHandle = Some(h)
    /\ Unwrap(result)[1] = Some(objects[h].CKA_ID)
    /\ GetKeyDone => Unwrap(result)[2] = Some(objects[h].CKA_KEY_TYPE)
    /\ GetPrivateKeyDone =>
          /\ Unwrap(result)[2] = Some(objects[h].CKA_LABEL)
          /\ Unwrap(result)[3] = Some(objects[h].CKA_KEY_TYPE)

\* C6: when the search of get_key or get_private_key matched two or more
\* objects, the operation has not failed, has returned the first of them in
\* device order with the attributes of that object, and has printed one
\* warning; when it matched exactly one, it has printed none.
C6_FirstOfSeveralWithOneWarning ==
    ((GetKeyDone \/ GetPrivateKeyDone) /\ Called("findObjects"))
    => /\ Cardinality(MatchingHandles) >= 2 =>
            /\ err = ""
            /\ ReturnsObject(Min(MatchingHandles))
            /\ CountCalls("print") = 1
       /\ Cardinality(MatchingHandles) = 1 =>
            /\ ReturnsObject(Min(MatchingHandles))
            /\ CountCalls("print") = 0

\* a search matched two objects that differ in id and key type: the first
\* is returned and one warning is printed
C6_Witness ==
    /\ (GetKeyDone \/ GetPrivateKeyDone) /\ Called("findObjects")
    /\ MatchingHandles = {1, 2}
    /\ objects[1].CKA_ID # objects[2].CKA_ID
    /\ objects[1].CKA_KEY_TYPE # objects[2].CKA_KEY_TYPE
    /\ CountCalls("print") = 1
    /\ ReturnsObject(1)

\* get_private_key found no object: there is no session, or the search it
\* submitted matched nothing
PrivateKeyNotFound ==
    /\ GetPrivateKeyDone
    /\ IsNone(session) \/ (Called("findObjects") /\ MatchingHandles = {})

\* C7, as stated: when get_private_key found no object, all four components
\* of its result are none.
C7_NotFoundIsAllNone ==
    PrivateKeyNotFound => result = Some(<<None, None, None, None>>)

\* C7, amended: when get_private_key found no object, the key type and the
\* handle of its result are none, the id is the UTF-8 bytes of the
\* locator's "id" (none without one) and the label is the locator's
\* "object" (none without one).
C7_NotFoundKeepsLocatorIdAndLabel ==
    PrivateKeyNotFound =>
        /\ Len(Unwrap(result)) = 4
        /\ Unwrap(result)[3] = None /\ Unwrap(result)[4] = None
        /\ Unwrap(result)[1] =
              (IF HasKey(location, TagId)
               THEN Some([i \in 1..Len(Get(location, TagId)) |->
                            CharCode(Get(location, TagId)[i])])
               ELSE None)
        /\ Unwrap(result)[2] =
              (IF HasKey(location, TagObject)
               THEN Some(Get(location, TagObject)) ELSE None)

\* a search with a session that matched nothing, for a locator with "id" and
\* "object": the result carries both
C7_Witness ==
    /\ PrivateKeyNotFound
    /\ IsSome(session)
    /\ HasKey(location, TagId) /\ HasKey(location, TagObject)
    /\ result = Some(<<Some(<<49>>), Some(<<"k">>), None, None>>)

\* the entries of the submitted template for the object class
ClassEntries ==
    {i \in 1..Len(SubmittedTemplate) : SubmittedTemplate[i][1] = "CKA_CLASS"}

\* C8: the template get_private_key submits has exactly one object-class
\* entry, and its value is the private key class.
C8_TemplateClassIsPrivate ==
    (GetPrivateKeyDone /\ Called("findObjects"))
    => /\ Cardinality(ClassEntries) = 1
       /\ \A i \in ClassEntries : SubmittedTemplate[i][2] = "CKO_PRIVATE_KEY"

\* a locator with type=public, searched as a private key
C8_Witness ==
    /\ GetPrivateKeyDone /\ Called("findObjects")
    /\ HasKey(location, TagType)
    /\ Get(location, TagType) = TypePublic
    /\ \E i \in ClassEntries : SubmittedTemplate[i][2] = "CKO_PRIVATE_KEY"

\* no attribute of the locator gives an entry of the get_key template: none
\* is "object" or "id", and a "type" has a value the class table lacks
NoObjectField ==
    \A i \in 1..Len(location) :
        /\ location[i][1] \notin {TagObject, TagId}
        /\ location[i][1] = TagType
           => ~HasKey(PKCS11_type_translation, location[i][2])

\* C22: no empty template is ever submitted to findObjects; a get_key on a
\* locator without a usable object attribute has called neither findObjects
\* nor getAttributeValue and has returned (None, None, None); a
\* get_private_key given a session has submitted a non-empty template.
C22_NoEmptyTemplate ==
    /\ \A i \in CallsOf("findObjects") : calls[i].arg # <<>>
    /\ (GetKeyDone /\ NoObjectField)
       => /\ ~Called("findObjects")
          /\ ~Called("getAttributeValue")
          /\ result = Some(<<None, None, None>>)
    /\ (GetPrivateKeyDone /\ IsSome(session))
       => (Called("findObjects") /\ SubmittedTemplate # <<>>)

\* get_key, given a session on a token that holds objects, ended without a
\* device call on a locator whose only object attribute is an unknown type
C22_Witness ==
    /\ GetKeyDone
    /\ IsSome(session)
    /\ Len(objects) > 0
    /\ HasKey(location, TagToken)
    /\ HasKey(location, TagType)
    /\ Get(location, TagType) = TypeBogus
    /\ NoObjectField
    /\ calls = <<>>

(***************************************************************************)
(* card_token/PKCS11_key_definition.py: the capability tables and          *)
(* read_key_usage_from_key                                                 *)
(***************************************************************************)
\* _key_classes: the object class and the KeyObjectTypes tag it gives
key_classes ==
    << <<"CKO_PRIVATE_KEY", "private">>,
       <<"CKO_PUBLIC_KEY", "public">>,
       <<"CKO_CERTIFICATE", "certificate">> >>

\* the table with WRAP of a private key read from CKA_WRAP
key_usage_PrivateWrap ==
    << <<"private", << <<"CRYPT", "CKA_DECRYPT">>,
                       <<"SIGN", "CKA_SIGN">>,
                       <<"WRAP", "CKA_WRAP">>,
                       <<"DERIVE", "CKA_DERIVE">>,
                       <<"RECOVER", "CKA_SIGN_RECOVER">> >> >>,
       <<"public", << <<"CRYPT", "CKA_ENCRYPT">>,
                      <<"SIGN", "CKA_VERIFY">>,
                      <<"WRAP", "CKA_WRAP">>,
                      <<"RECOVER", "CKA_VERIFY_RECOVER">> >> >> >>

\* _key_usage: for a tag, the OperationTypes and the attribute of each
key_usage ==
    << <<"private", << <<"CRYPT", "CKA_DECRYPT">>,
                       <<"SIGN", "CKA_SIGN">>,
                       <<"WRAP", "CKA_UNWRAP">>,
                       <<"DERIVE", "CKA_DERIVE">>,
                       <<"RECOVER", "CKA_SIGN_RECOVER">> >> >>,
       <<"public", << <<"CRYPT", "CKA_ENCRYPT">>,
                      <<"SIGN", "CKA_VERIFY">>,
                      <<"WRAP", "CKA_WRAP">>,
                      <<"RECOVER", "CKA_VERIFY_RECOVER">> >> >> >>

\* str(k).replace("OperationTypes.", "").lower()
UsageName(k) ==
    IF k = "CRYPT" THEN "crypt"
    ELSE IF k = "SIGN" THEN "sign"
    ELSE IF k = "WRAP" THEN "wrap"
    ELSE IF k = "DERIVE" THEN "derive" ELSE "recover"

\* atr_template: the attributes of the table entry, in its order
AtrTemplate(entry) == [i \in 1..Len(entry) |-> entry[i][2]]

\* usage_list: the argument names of the table entry, in its order
UsageList(entry) == [i \in 1..Len(entry) |-> UsageName(entry[i][1])]

\* dict(zip(usage_list, attrs))
ZipDict(names, values) == [i \in 1..Len(names) |-> <<names[i], values[i]>>]

\* PKCS11KeyUsage.__init__ can bind the keyword arguments: crypt, sign, wrap
\* and recover have no default
KeyUsageArgsOK(kwargs) ==
    \A n \in {"crypt", "sign", "wrap", "recover"} : HasKey(kwargs, n)

\* PKCS11KeyUsage(**kwargs): _usage, with derive None when it is not given
PKCS11KeyUsage(kwargs) ==
    [CRYPT |-> Get(kwargs, "crypt"),
     SIGN |-> Get(kwargs, "sign"),
     WRAP |-> Get(kwargs, "wrap"),
     DERIVE |-> IF HasKey(kwargs, "derive") THEN Get(kwargs, "derive")
                ELSE None,
     RECOVER |-> Get(kwargs, "recover")]

\* the object read is the first of the token
key_ref == 1

ReadKeyUsage ==
    /\ pc = "read_key_usage"
    /\ LET class_attr == GetAttributeValue(objects, key_ref, <<"CKA_CLASS">>)
       IN  IF /\ Len(class_attr) = 1
              /\ IsSome(class_attr[1])
              /\ HasKey(key_classes, Unwrap(class_attr[1]))
           THEN LET tag == Get(key_classes, Unwrap(class_attr[1]))
                IN  IF ~HasKey(key_usage, tag)
                    THEN /\ err' = "KeyError"
                         /\ calls' = Append(calls,
                              Call("getAttributeValue",
                                   <<key_ref, <<"CKA_CLASS">>>>))
                         /\ UNCHANGED result
                    ELSE LET entry == Get(key_usage, tag)
                             atr_template == AtrTemplate(entry)
                             attrs == GetAttributeValue(objects, key_ref,
                                                        atr_template)
                             rezult == ZipDict(UsageList(entry), attrs)
                         IN  /\ calls' = calls \o
                                  <<Call("getAttributeValue",
                                         <<key_ref, <<"CKA_CLASS">>>>),
                                    Call("getAttributeValue",
                                         <<key_ref, atr_template>>)>>
                             /\ IF KeyUsageArgsOK(rezult)
                                THEN /\ result' = Some(Some(PKCS11KeyUsage(rezult)))
                                     /\ UNCHANGED err
                                ELSE /\ err' = "TypeError"
                                     /\ UNCHANGED result
           ELSE /\ result' = Some(None)
                /\ calls' = Append(calls,
                     Call("getAttributeValue", <<key_ref, <<"CKA_CLASS">>>>))
                /\ UNCHANGED err
    /\ pc' = "read_key_usage_done"
    /\ UNCHANGED <<location, query, objects>>
    /\ UNCHANGED parseVars
    /\ UNCHANGED sessionVars
    /\ UNCHANGED self

\* the value of an attribute bit: None when the device has no value for it
Bit == {Some(TRUE), Some(FALSE)}

\* the objects whose usage is read: a class (or none) and the usage bits
UsageObjects ==
    [CKA_CLASS : Opt({"CKO_PRIVATE_KEY", "CKO_PUBLIC_KEY", "CKO_CERTIFICATE",
                      "CKO_DATA"}),
     CKA_DECRYPT : Bit, CKA_SIGN : Bit, CKA_UNWRAP : Bit,
     CKA_DERIVE : Bit \cup {None}, CKA_SIGN_RECOVER : Bit,
     CKA_ENCRYPT : Bit, CKA_VERIFY : Bit, CKA_WRAP : Bit,
     CKA_VERIFY_RECOVER : Bit]

InitUsage ==
    /\ pc = "read_key_usage"
    /\ err = ""
    /\ IdleParse
    /\ location = EmptyDict
    /\ query = EmptyDict
    /\ dev = NoDevice
    /\ norm_user = TRUE
    /\ slot = None
    /\ login_required = FALSE
    /\ session = Some(1)
    /\ pin = None
    /\ operations = <<>>
    /\ openSessions = {1}
    /\ calls = <<>>
    /\ \E o \in UsageObjects : objects = <<o>>
    /\ result = None
    /\ IdleOpen

NextUsage == ReadKeyUsage

SpecUsage == InitUsage /\ [][NextUsage]_vars

(***************************************************************************)
(* Claims about read_key_usage_from_key, checked under SpecUsage.          *)
(***************************************************************************)
UsageDone == pc = "read_key_usage_done"
ObjectClass == objects[key_ref].CKA_CLASS
ReadAttributes == IF Len(calls) >= 2 THEN calls[2].arg[2] ELSE <<>>
Usage == Unwrap(Unwrap(result))

\* C9: for a private or public key, read_key_usage_from_key has read exactly
\* the attributes the table lists for the class and has returned a record in
\* which every kind holds the value of its own attribute, derive of a public
\* key being absent.
C9_UsageFromOwnAttributes ==
    UsageDone =>
      /\ ObjectClass = Some("CKO_PRIVATE_KEY") =>
            /\ err = "" /\ IsSome(result) /\ IsSome(Unwrap(result))
            /\ ReadAttributes = <<"CKA_DECRYPT", "CKA_SIGN", "CKA_UNWRAP",
                                  "CKA_DERIVE", "CKA_SIGN_RECOVER">>
            /\ Usage = [CRYPT |-> objects[key_ref].CKA_DECRYPT,
                        SIGN |-> objects[key_ref].CKA_SIGN,
                        WRAP |-> objects[key_ref].CKA_UNWRAP,
                        DERIVE |-> objects[key_ref].CKA_DERIVE,
                        RECOVER |-> objects[key_ref].CKA_SIGN_RECOVER]
      /\ ObjectClass = Some("CKO_PUBLIC_KEY") =>
            /\ err = "" /\ IsSome(result) /\ IsSome(Unwrap(result))
            /\ ReadAttributes = <<"CKA_ENCRYPT", "CKA_VERIFY", "CKA_WRAP",
                                  "CKA_VERIFY_RECOVER">>
            /\ Usage = [CRYPT |-> objects[key_ref].CKA_ENCRYPT,
                        SIGN |-> objects[key_ref].CKA_VERIFY,
                        WRAP |-> objects[key_ref].CKA_WRAP,
                        DERIVE |-> None,
                        RECOVER |-> objects[key_ref].CKA_VERIFY_RECOVER]

\* the private key of the example: decrypt, unwrap and recover set, sign
\* clear (while verify, the bit of a public key, is set), no derive bit
C9_Witness ==
    /\ UsageDone
    /\ ObjectClass = Some("CKO_PRIVATE_KEY")
    /\ objects[key_ref].CKA_VERIFY = Some(TRUE)
    /\ IsSome(result) /\ IsSome(Unwrap(result))
    /\ Usage = [CRYPT |-> Some(TRUE), SIGN |-> Some(FALSE),
                WRAP |-> Some(TRUE), DERIVE |-> None, RECOVER |-> Some(TRUE)]

\* C10: read_key_usage_from_key has not failed, whatever the class of the
\* object: it has returned a record or "no capabilities", "no capabilities"
\* for a class the table does not know, and for a certificate a record with
\* every kind absent.
C10_NeverFailsOnClass ==
    UsageDone =>
      /\ err = "" /\ IsSome(result)
      /\ ObjectClass \notin {Some("CKO_PRIVATE_KEY"), Some("CKO_PUBLIC_KEY"),
                             Some("CKO_CERTIFICATE")}
            => Unwrap(result) = None
      /\ ObjectClass = Some("CKO_CERTIFICATE") =>
            /\ IsSome(Unwrap(result))
            /\ \A k \in DOMAIN Usage : Usage[k] = None

(***************************************************************************)
(* PKCS11KeySession.open and PKCS11AdminSession.open                       *)
(***************************************************************************)
\* the key types that have an adapter module
key_modules ==
    << <<"CKK_ECDSA", "pkcs11_cryptography_keys.keys.ec">>,
       <<"CKK_RSA", "pkcs11_cryptography_keys.keys.rsa">> >>

\* the "for sl in slots" loop of open() from slot k on: slot and
\* _login_required as the loop leaves them
RECURSIVE OpenSlotLoop(_, _, _, _, _)
OpenSlotLoop(token_label, slots, k, slotv, login) ==
    IF k > Len(slots) THEN [slot |-> slotv, login_required |-> login]
    ELSE
      LET ti == slots[k].token
          login2 == login \/ ("CKF_LOGIN_REQUIRED" \in ti.flags)
          slot1 == IF IsNone(token_label) THEN Some(k) ELSE slotv
      IN  IF Some(Strip(ti.label)) = token_label
          THEN [slot |-> Some(k), login_required |-> login2]
          ELSE OpenSlotLoop(token_label, slots, k + 1, slot1, login2)

\* load the library, enumerate the slots and select one; open() returns
\* None when none is selected
OpenSelectSlot ==
    /\ pc = "open"
    /\ LET r == OpenSlotLoop(self.token_label, dev.slots, 1, None,
                             IF self.class = "PKCS11KeySession"
                             THEN FALSE ELSE login_required)
       IN  /\ slot' = r.slot
           /\ login_required' = r.login_required
           /\ IF IsSome(r.slot)
              THEN pc' = "open_session" /\ UNCHANGED result
              ELSE pc' = "open_done" /\ result' = Some(None)
    /\ calls' = calls \o <<Call("load", <<>>), Call("getSlotList", <<>>)>>
    /\ UNCHANGED <<err, location, query, objects, self>>
    /\ UNCHANGED parseVars
    /\ UNCHANGED <<dev, norm_user, session, pin, operations, openSessions>>

\* library.openSession on the selected slot
OpenSession ==
    /\ pc = "open_session"
    /\ session' = Some(NewHandle)
    /\ openSessions' = openSessions \cup {NewHandle}
    /\ calls' = Append(calls, Call("openSession", Unwrap(slot)))
    /\ pc' = IF login_required THEN "open_login" ELSE "open_find"
    /\ UNCHANGED <<err, location, query, objects, result, self>>
    /\ UNCHANGED parseVars
    /\ UNCHANGED <<dev, norm_user, slot, login_required, pin, operations>>

\* session.login with self._pin: the key session as the user, the admin
\* session with CKU_SO unless norm_user; the device accepts or rejects
OpenLogin ==
    /\ pc = "open_login"
    /\ calls' = Append(calls, Call("login",
                    <<Unwrap(pin),
                      IF self.class = "PKCS11KeySession" \/ norm_user
                      THEN "CKU_USER" ELSE "CKU_SO">>))
    /\ \E accepted \in BOOLEAN :
          IF accepted
          THEN pc' = "open_find" /\ UNCHANGED err
          ELSE pc' = "open_done" /\ err' = "LoginFailure"
    /\ UNCHANGED <<location, query, objects, result, self>>
    /\ UNCHANGED parseVars
    /\ UNCHANGED sessionVars

\* the template of the private key search: the class, and the label when
\* one was given
PrivateKeySearch(key_label) ==
    << <<"CKA_CLASS", "CKO_PRIVATE_KEY">> >>
    \o (IF IsNone(key_label) THEN <<>>
        ELSE << <<"CKA_LABEL", Unwrap(key_label)>> >>)

\* PKCS11KeySession: _get_private_key, the adapter of the key type, get_key
\* and the mechanisms of the slot filled into the key; the device may fail
\* the attribute read or the mechanism read
OpenGetPrivateKey ==
    /\ pc = "open_find"
    /\ self.class = "PKCS11KeySession"
    /\ LET template == PrivateKeySearch(self.key_label)
           found == FindObjects(objects, template, 1)
           attrs == <<"CKA_KEY_TYPE", "CKA_ID">>
           a == GetAttributeValue(objects, found[1], attrs)
           find == Call("findObjects", template)
           read == Call("getAttributeValue", <<found[1], attrs>>)
       IN  IF found = <<>>
           THEN /\ calls' = Append(calls, find)
                /\ err' = "IndexError"
                /\ UNCHANGED result
           ELSE \/ /\ calls' = calls \o <<find, Call("getAttributeValue",
                                                     "error")>>
                   /\ err' = "DeviceError"
                   /\ UNCHANGED result
                \/ /\ ~HasKey(key_modules, a[1])
                   /\ calls' = calls \o <<find, read>>
                   /\ result' = Some(None)
                   /\ UNCHANGED err
                \/ /\ HasKey(key_modules, a[1])
                   /\ calls' = calls \o <<find, read,
                              Call("getMechanismList", dev.mechanisms)>>
                   /\ result' = Some(Some(
                         [session |-> Unwrap(session), keyid |-> a[2],
                          pk_ref |-> found[1],
                          operations |-> MechanismOps(dev.mechanisms)]))
                   /\ UNCHANGED err
                \/ /\ HasKey(key_modules, a[1])
                   /\ calls' = calls \o <<find, read,
                              Call("getMechanismList", "error")>>
                   /\ err' = "DeviceError"
                   /\ UNCHANGED result
    /\ pc' = "open_done"
    /\ UNCHANGED <<location, query, objects, self>>
    /\ UNCHANGED parseVars
    /\ UNCHANGED sessionVars

\* the key id the admin object gets when no private key was found
AdminKeyId(key_id, key_label) ==
    IF IsNone(key_id)
    THEN (IF IsNone(key_label) THEN Some(<<1>>) ELSE None)
    ELSE key_id

\* the label the admin object gets when no private key was found
AdminLabel(key_label) ==
    IF IsNone(key_label) THEN Some(<<"d", "e", "f", "a", "u", "l", "t">>)
    ELSE key_label

\* PKCS11AdminSession: _get_private_key_info and the PKCS11TokenAdmin
\* returned; the device may fail the attribute read
OpenGetPrivateKeyInfo ==
    /\ pc = "open_find"
    /\ self.class = "PKCS11AdminSession"
    /\ LET template == PrivateKeySearch(self.key_label)
           found == FindObjects(objects, template, 1)
           attrs == <<"CKA_ID", "CKA_LABEL">>
           a == GetAttributeValue(objects, found[1], attrs)
           find == Call("findObjects", template)
           read == Call("getAttributeValue", <<found[1], attrs>>)
       IN  IF found = <<>>
           THEN /\ calls' = Append(calls, find)
                /\ result' = Some(Some(
                      [session |-> Unwrap(session),
                       keyid |-> AdminKeyId(self.key_id, self.key_label),
                       label |-> AdminLabel(self.key_label)]))
                /\ UNCHANGED err
           ELSE \/ /\ calls' = calls \o <<find, Call("getAttributeValue",
                                                     "error")>>
                   /\ err' = "DeviceError"
                   /\ UNCHANGED result
                \/ /\ calls' = calls \o <<find, read>>
                   /\ result' = Some(Some(
                         [session |-> Unwrap(session), keyid |-> Some(a[1]),
                          label |-> Some(a[2])]))
                   /\ UNCHANGED err
    /\ pc' = "open_done"
    /\ UNCHANGED <<location, query, objects, self>>
    /\ UNCHANGED parseVars
    /\ UNCHANGED sessionVars

\* the tokens' private keys: the key type CKK_DSA has no adapter module
OpenObjects ==
    [CKA_CLASS : {"CKO_PRIVATE_KEY"},
     CKA_LABEL : {<<"k">>, <<"j">>},
     CKA_ID : {<<49>>},
     CKA_KEY_TYPE : {"CKK_RSA", "CKK_DSA"}]

\* the slots as open() sees them: the token's label and flags
OpenSlotRecords ==
    [slot : [slotDescription : {<<"S">>}],
     token : [label : TokenLabels, flags : TokenFlags]]

\* the session objects as constructed: a key session, or an admin session
\* with its key id, and whatever _login_required it holds before open()
KeySessions ==
    [class : {"PKCS11KeySession"},
     token_label : Opt({<<"A">>, <<"B">>}),
     key_label : Opt({<<"k">>}),
     key_id : {None}]

AdminSessions ==
    [class : {"PKCS11AdminSession"},
     token_label : Opt({<<"A">>, <<"B">>}),
     key_label : Opt({<<"k">>}),
     key_id : Opt({<<7>>})]

InitOpen ==
    /\ pc = "open"
    /\ err = ""
    /\ IdleParse
    /\ location = EmptyDict
    /\ query = EmptyDict
    /\ \/ /\ self \in KeySessions
          /\ norm_user = TRUE
          /\ login_required = FALSE
          /\ dev \in [info : {[manufacturerID |-> <<"L", " ">>]},
                      slots : Str(MaxSlots, OpenSlotRecords),
                      mechanisms : MechanismLists]
       \/ /\ self \in AdminSessions
          /\ norm_user \in BOOLEAN
          /\ login_required \in BOOLEAN
          /\ dev \in [info : {[manufacturerID |-> <<"L", " ">>]},
                      slots : Str(MaxSlots, OpenSlotRecords),
                      mechanisms : {<<>>}]
    /\ slot = None
    /\ session = None
    /\ pin = Some(<<"1">>)
    /\ operations = <<>>
    /\ openSessions = {}
    /\ calls = <<>>
    /\ objects \in Str(MaxObjs, OpenObjects)
    /\ result = None

NextOpen ==
    \/ OpenSelectSlot
    \/ OpenSession
    \/ OpenLogin
    \/ OpenGetPrivateKey
    \/ OpenGetPrivateKeyInfo

SpecOpen == InitOpen /\ [][NextOpen]_vars

(***************************************************************************)
(* Claims about the open() of the two session classes, checked under       *)
(* SpecOpen.                                                               *)
(***************************************************************************)
OpenDone == pc = "open_done"

\* the slot the session was opened on is the first whose trimmed token
\* label is the label asked for
OpenedOnFirstLabelled ==
    \A i \in CallsOf("openSession") :
        /\ Some(Strip(dev.slots[calls[i].arg].token.label)) = self.token_label
        /\ \A j \in 1..(calls[i].arg - 1) :
              Some(Strip(dev.slots[j].token.label)) # self.token_label

\* C13: in both open() methods, a session opened with no token label asked
\* for and at least two slots enumerated is opened on the first slot, and a
\* session opened with a label asked for is opened on the first slot whose
\* trimmed token label equals it.
C13_OpenSelectsFirstSlot ==
    Called("openSession")
    => /\ (IsNone(self.token_label) /\ Len(dev.slots) >= 2)
          => CalledWith("openSession", 1)
       /\ IsSome(self.token_label) => OpenedOnFirstLabelled

\* open() has left by an exception or, in the key session, without a key
OpenFailed ==
    /\ OpenDone
    /\ \/ err # ""
       \/ self.class = "PKCS11KeySession" /\ result = Some(None)

\* C16: when open() has opened a session and then failed (login rejected,
\* no private key found, an attribute read failed, no adapter for the key
\* type), that session has been closed.
C16_FailedOpenClosesSession ==
    (OpenFailed /\ Called("openSession"))
    => /\ openSessions = {}
       /\ \A i \in CallsOf("openSession") :
             CalledWith("closeSession", Unwrap(session))

(***************************************************************************)
(* PKCS11URI.parse on well-formed inputs: "pkcs11:", name=value pairs      *)
(* joined by ";", optionally "?" and the pairs of the query, optionally a  *)
(* "#" and a fragment.                                                     *)
(***************************************************************************)
MaxPairs == 2       \* pairs of a segment

TagPinSource == <<"p", "i", "n", "-", "s", "o", "u", "r", "c", "e">>

\* the text of one pair
PairText(name, value) == name \o <<"=">> \o value

\* the texts of n pairs joined by ";"
RECURSIVE Join(_)
Join(ps) ==
    IF ps = <<>> THEN <<>>
    ELSE IF Len(ps) = 1 THEN ps[1]
    ELSE ps[1] \o <<";">> \o Join(Tail(ps))

\* the pairs of the scheme segment: a value may be plain, percent-encoded,
\* the encoding of a percent sign followed by two digits, or hold an "="
LocationPairs ==
    { PairText(n, v) :
        n \in {<<"a">>, <<"b">>},
        v \in {<<"4">>, <<"%", "4", "4">>, <<"%", "2", "5", "4", "4">>,
               <<"4", "=", "5">>} }

\* the pairs of the query segment
QueryPairs ==
    { PairText(n, v) : n \in {TagPinSource, TagPinValue},
                       v \in {<<"4">>, <<"%", "4", "4">>} }

Fragments == { <<>>, <<"#", "a", "=", "9">> }

WellFormedInputs(n) ==
    { <<"p", "k", "c", "s", "1", "1", ":">> \o Join(l)
      \o (IF q = <<>> THEN <<>> ELSE <<"?">> \o Join(q)) \o f :
        l \in Str(n, LocationPairs) \ {<<>>},
        q \in Str(n, QueryPairs),
        f \in Fragments }

InitParsePairs ==
    /\ pc = "parse"
    /\ err = ""
    /\ uri \in WellFormedInputs(MaxPairs)
    /\ grp = NoGroups
    /\ rest = <<>>
    /\ location = EmptyDict
    /\ query = EmptyDict
    /\ IdleSession
    /\ calls = <<>>
    /\ objects = <<>>
    /\ result = None
    /\ IdleOpen

SpecParsePairs == InitParsePairs /\ [][NextParse]_vars

(***************************************************************************)
(* Claims about PKCS11URI.parse on well-formed inputs, checked under       *)
(* SpecParsePairs.                                                         *)
(***************************************************************************)
\* the input without its fragment
BeforeFragment(u) ==
    LET h == Find(u, "#") IN IF h < 0 THEN u ELSE PySlice(u, 0, h)

\* the text between the scheme's ":" and the "?", and the text after the "?"
LocationText(u) ==
    LET t == Partition(BeforeFragment(u))[2]
        q == Find(t, "?")
    IN  IF q < 0 THEN t ELSE PySlice(t, 0, q)

QueryText(u) ==
    LET t == Partition(BeforeFragment(u))[2]
        q == Find(t, "?")
    IN  IF q < 0 THEN <<>> ELSE PySliceFrom(t, q + 1)

\* the pairs of a segment: its pieces between ";"
RECURSIVE SplitPairs(_)
SplitPairs(t) ==
    LET a == Find(t, ";")
    IN  IF a < 0 THEN <<t>>
        ELSE <<PySlice(t, 0, a)>> \o SplitPairs(PySliceFrom(t, a + 1))

\* the name of a pair is its text before the first "=", its value the rest
PairName(p) == PySlice(p, 0, Find(p, "="))
PairValue(p) == PySliceFrom(p, Find(p, "=") + 1)

\* the map m holds exactly the names of the pairs of segment t, each once,
\* each with the value of its last pair decoded once
HoldsPairs(m, t) ==
    IF t = <<>> THEN m = EmptyDict
    ELSE
      LET ps == SplitPairs(t)
      IN  /\ Keys(m) = {PairName(ps[i]) : i \in 1..Len(ps)}
          /\ Len(m) = Cardinality(Keys(m))
          /\ \A i \in 1..Len(ps) :
                (\A j \in (i + 1)..Len(ps) : PairName(ps[j]) # PairName(ps[i]))
                => Get(m, PairName(ps[i])) = unquote(PairValue(ps[i]))

\* C19: parse of a well-formed input returns, with no error, maps that hold
\* for each segment exactly the names before the first "=" of its pairs,
\* each with the value of its last occurrence percent-decoded once; the
\* fragment adds nothing to either map.
C19_LastPairDecodedOnce ==
    ParseDone
    => /\ err = ""
       /\ HoldsPairs(location, LocationText(uri))
       /\ HoldsPairs(query, QueryText(uri))

\* an input with a fragment whose scheme segment names "a" twice, first
\* with a plain value and last with an encoded percent sign, was parsed
C19_Witness ==
    /\ ParseDone
    /\ Find(uri, "#") > 0
    /\ LocationText(uri) = Join(<<PairText(<<"a">>, <<"4">>),
                                  PairText(<<"a">>,
                                           <<"%", "2", "5", "4", "4">>)>>)
    /\ location = << <<<<"a">>, <<"%", "4", "4">>>> >>
    /\ HasKey(query, TagPinValue)

\* C20: a Locator returned by parse never has both pin-source and pin-value
\* in its query map.
C20_NotBothPinAttributes ==
    ParseReturned
    => ~(HasKey(query, TagPinSource) /\ HasKey(query, TagPinValue))

====
